---------------------------- MODULE Spec2Model ----------------------------
(***************************************************************************)
(* Model of the mux eval runner (src/runners/rust/src/main.rs).            *)
(*                                                                         *)
(* Strings are sequences of atoms.  An atom is a non-empty piece of text   *)
(* that the program never looks inside: "VERDICT:", "REASON:", a word, an  *)
(* identifier, or a single whitespace character.  Concatenation is \o, the *)
(* empty string is << >>, and a literal of the source is written with its  *)
(* atoms split at the places the program can split it, so that two equal   *)
(* Rust strings are equal sequences.                                       *)
(*                                                                         *)
(* Collaborators that live outside the file (the mux tool registry, hook   *)
(* registry, transcript store, LLM clients, and the judging model) answer  *)
(* nondeterministically within their interface: every handler action draws *)
(* their answers with \E.                                                  *)
(***************************************************************************)
EXTENDS Integers, Sequences, FiniteSets, TLC

VARIABLES
    pc,         \* position of main: "start", "judge", "run", "summary", "exit", "done", "aborted", "panicked"
    args,       \* Args: category, id, verbose, failures_only, judge_model
    env,        \* the set of environment variables that are set
    fs,         \* what the evals path holds
    evals,      \* main's `evals`: the loaded Vec<Eval>
    judge,      \* main's `judge`: None or a Judge
    cursor,     \* how many elements the `for eval in &evals` loop has consumed
    passed,     \* main's counters
    failed,
    skipped,
    stdout,     \* the lines printed so far, in order
    exit_code,  \* << >> while the process runs, then <<its exit status>>
    result,     \* the EvalResult of the eval run last (None before the first)
    handler,    \* the category handler that eval ran ("none": no handler)
    calls,      \* the collaborator calls that eval made, in order, with their answers
    outcomes,   \* history: what run_eval returned (or Panic) for each eval run so far
    response,   \* Judge::evaluate: what create_message answered
    verdict     \* Judge::evaluate: what it returned

vars == <<pc, args, env, fs, evals, judge, cursor, passed, failed, skipped,
          stdout, exit_code, result, handler, calls, outcomes, response, verdict>>

\* Option::None of a string; an absent record is Absent
None == "None"
Absent == [absent |-> TRUE]

(***************************************************************************)
(* Bounds of the model.                                                    *)
(***************************************************************************)
MaxTextLen == 4

(***************************************************************************)
(* String helpers (Rust std), over atom sequences.                         *)
(***************************************************************************)
Whitespace == {" ", "\n", "\r"}

\* str::starts_with
StartsWith(s, prefix) ==
    /\ Len(s) >= Len(prefix)
    /\ SubSeq(s, 1, Len(prefix)) = prefix

\* str::contains: scan the start positions left to right
RECURSIVE ContainsFrom(_, _, _)
ContainsFrom(s, pat, i) ==
    IF i + Len(pat) - 1 > Len(s) THEN FALSE
    ELSE IF SubSeq(s, i, i + Len(pat) - 1) = pat THEN TRUE
    ELSE ContainsFrom(s, pat, i + 1)

Contains(s, pat) == ContainsFrom(s, pat, 1)

\* str::trim_start_matches: removes the prefix as long as the rest starts with it
RECURSIVE TrimStartMatches(_, _)
TrimStartMatches(s, prefix) ==
    IF prefix # << >> /\ StartsWith(s, prefix)
    THEN TrimStartMatches(SubSeq(s, Len(prefix) + 1, Len(s)), prefix)
    ELSE s

RECURSIVE TrimStart(_)
TrimStart(s) ==
    IF s # << >> /\ Head(s) \in Whitespace THEN TrimStart(Tail(s)) ELSE s

RECURSIVE TrimEnd(_)
TrimEnd(s) ==
    IF s # << >> /\ s[Len(s)] \in Whitespace
    THEN TrimEnd(SubSeq(s, 1, Len(s) - 1))
    ELSE s

\* str::trim
Trim(s) == TrimEnd(TrimStart(s))

\* One element of split_inclusive('\n') as str::lines maps it: a final "\n" is
\* removed, and then a "\r" before it.
StripLineEnding(piece) ==
    IF piece # << >> /\ piece[Len(piece)] = "\n"
    THEN LET l == SubSeq(piece, 1, Len(piece) - 1)
         IN  IF l # << >> /\ l[Len(l)] = "\r" THEN SubSeq(l, 1, Len(l) - 1) ELSE l
    ELSE piece

\* str::lines: cur is the piece being read; nothing follows a final line ending
RECURSIVE LinesFrom(_, _)
LinesFrom(s, cur) ==
    IF s = << >> THEN (IF cur = << >> THEN << >> ELSE <<StripLineEnding(cur)>>)
    ELSE IF Head(s) = "\n"
         THEN <<StripLineEnding(Append(cur, "\n"))>> \o LinesFrom(Tail(s), << >>)
         ELSE LinesFrom(Tail(s), Append(cur, Head(s)))

Lines(s) == LinesFrom(s, << >>)

(***************************************************************************)
(* Judge                                                                   *)
(***************************************************************************)
TextBlock(t) == [type |-> "text", text |-> t]
ToolUseBlock(n) == [type |-> "tool_use", name |-> n]

\* "VERDICT: PASS" and "REASON:" and "No reason provided" as atom sequences
VERDICT_PASS == <<"VERDICT:", " ", "PASS">>
REASON_PREFIX == <<"REASON:">>
NO_REASON == <<"No reason provided">>

\* .filter_map(Text { text } => Some(text)).collect().join("")
RECURSIVE JoinText(_)
JoinText(content) ==
    IF content = << >> THEN << >>
    ELSE (IF Head(content).type = "text" THEN Head(content).text ELSE << >>)
         \o JoinText(Tail(content))

\* ParsePassed with a slip: the verdict must be a line of its own
ParsePassedLineAnchored(text) ==
    \E i \in 1..Len(Lines(text)) : Lines(text)[i] = VERDICT_PASS

\* let passed = text.contains("VERDICT: PASS")
ParsePassed(text) == Contains(text, VERDICT_PASS)

\* .lines().find(|l| l.starts_with("REASON:")): << >> is None, <<l>> is Some(l)
RECURSIVE FindReasonLine(_)
FindReasonLine(ls) ==
    IF ls = << >> THEN << >>
    ELSE IF StartsWith(Head(ls), REASON_PREFIX) THEN <<Head(ls)>>
    ELSE FindReasonLine(Tail(ls))

\* .map(|l| l.trim_start_matches("REASON:").trim()).unwrap_or("No reason provided")
ParseReason(text) ==
    LET l == FindReasonLine(Lines(text))
    IN  IF l = << >> THEN NO_REASON
        ELSE Trim(TrimStartMatches(l[1], REASON_PREFIX))

\* JudgeEvaluate with a slip: a response without a REASON line is an error
JudgeEvaluateStrict(resp) ==
    IF ~resp.ok THEN [ok |-> FALSE, error |-> resp.error]
    ELSE LET text == JoinText(resp.content)
         IN  IF FindReasonLine(Lines(text)) = << >>
             THEN [ok |-> FALSE, error |-> <<"unparseable verdict">>]
             ELSE [ok |-> TRUE, passed |-> ParsePassed(text),
                   reason |-> ParseReason(text)]

\* Judge::evaluate, given what self.client.create_message answered
JudgeEvaluate(resp) ==
    IF ~resp.ok THEN [ok |-> FALSE, error |-> resp.error]
    ELSE LET text == JoinText(resp.content)
         IN  [ok |-> TRUE, passed |-> ParsePassed(text), reason |-> ParseReason(text)]

(***************************************************************************)
(* The judging model's answers: the atoms of the response grammar, a word, *)
(* and whitespace, in text blocks that a non-text block may separate.      *)
(***************************************************************************)
Tokens == {"VERDICT:", " ", "PASS", "REASON:", "\n", "\r", "ok"}

Texts == UNION {[1..n -> Tokens] : n \in 0..MaxTextLen}

\* The text t as response content: one text block (k = 0), or two text blocks
\* around a tool-use block, the text cut after its k-th atom.
Content(t, k) ==
    IF k = 0 THEN <<TextBlock(t)>>
    ELSE <<TextBlock(SubSeq(t, 1, k)), ToolUseBlock("bash"),
           TextBlock(SubSeq(t, k + 1, Len(t)))>>

\* Replies in the two-line grammar the prompt asks for, with and without a final
\* line ending ("VERDICT: PASS\nREASON: Correct." and its kin).
GrammarReplies ==
    {<<"VERDICT:", " ", v, "\n", "REASON:", " ", "Correct.">> \o e :
        v \in {"PASS", "FAIL"}, e \in {<< >>, <<"\n">>, <<"\r", "\n">>}}

LlmError == [ok |-> FALSE, error |-> <<"llm error">>]

LlmOk(content) == [ok |-> TRUE, content |-> content]

(***************************************************************************)
(* EvalResult, and what a handler hands back: its result and the           *)
(* collaborator calls it made.  A handler that panics (an unwrap of        *)
(* None/Err, an index out of bounds) hands back Panic, which no value of   *)
(* EvalResult is: the panic unwinds through run_eval and main.             *)
(***************************************************************************)
Pass == [tag |-> "Pass"]
Fail(reason) == [tag |-> "Fail", reason |-> reason]
Skip(reason) == [tag |-> "Skip", reason |-> reason]
Panic(reason) == [tag |-> "Panic", reason |-> reason]

Out(res, cs) == [result |-> res, calls |-> cs]

Ok(content) == [ok |-> TRUE, content |-> content]
Err(error) == [ok |-> FALSE, error |-> error]

(***************************************************************************)
(* Test tools                                                              *)
(***************************************************************************)
\* AddTool::execute: format!("{}", a + b)
AddToolExecute(a, b) == Ok(<<ToString(a + b)>>)

\* DivideTool::execute
DivideToolExecute(a, b) ==
    IF b = 0 THEN Err(<<"Division by zero">>) ELSE Ok(<<ToString(a \div b)>>)

\* GreetTool::execute: format!("Hello, {}!", name)
GreetToolExecute(name) == Ok(<<"Hello, ", name, "!">>)

\* GetInfoTool::execute: json!({"version": "1.0", "name": "mux"}).to_string()
InfoJson == <<"{\"name\":\"mux\",\"version\":\"1.0\"}">>
GetInfoToolExecute == Ok(InfoJson)

\* serde_json::from_str::<Value>(s).is_ok(), for the texts the tools produce
IsJson(s) == s \in {InfoJson, <<"5">>}

(***************************************************************************)
(* Tool evals.  o.get is what Registry::get answers: "some" (the tool      *)
(* registered under the name) or "none".                                   *)
(***************************************************************************)
RegistrySetup ==
    <<[op |-> "Registry::new"],
      [op |-> "Registry::register", arg |-> "add"],
      [op |-> "Registry::register", arg |-> "divide"],
      [op |-> "Registry::register", arg |-> "greet"],
      [op |-> "Registry::register", arg |-> "get_info"]>>

RegistryGet(name, o) ==
    RegistrySetup \o <<[op |-> "Registry::get", arg |-> name, ret |-> o.get]>>

Executed(name, r) == [op |-> "Tool::execute", arg |-> name, ret |-> r]

run_tool_eval(eval, o) ==
    CASE eval.id = "tool-001" ->
            IF o.get = "none"
            THEN Out(Fail(<<"Tool 'add' not found">>), RegistryGet("add", o))
            ELSE LET r == AddToolExecute(2, 3)
                 IN  Out(IF r.ok
                         THEN IF Contains(r.content, <<"5">>) THEN Pass
                              ELSE Fail(<<"Expected '5', got: ">> \o r.content)
                         ELSE Fail(<<"Execution failed: ">> \o r.error),
                         Append(RegistryGet("add", o), Executed("add", r)))
      [] eval.id = "tool-002" ->
            Out(IF o.get = "none" THEN Pass
                ELSE Fail(<<"Expected None for nonexistent tool">>),
                RegistryGet("nonexistent", o))
      [] eval.id = "tool-003" ->
            IF o.get = "none"
            THEN Out(Panic(<<"unwrap on None">>),
                     RegistryGet("divide", o))
            ELSE LET r == DivideToolExecute(10, 0)
                 IN  Out(IF ~r.ok THEN Pass
                         ELSE Fail(<<"Expected error for division by zero">>),
                         Append(RegistryGet("divide", o), Executed("divide", r)))
      [] eval.id = "tool-004" ->
            IF o.get = "none"
            THEN Out(Panic(<<"unwrap on None">>),
                     RegistryGet("greet", o))
            ELSE LET r == GreetToolExecute("World")
                 IN  Out(IF r.ok
                         THEN IF Contains(r.content, <<"World">>) THEN Pass
                              ELSE Fail(<<"Expected 'World' in result, got: ">> \o r.content)
                         ELSE Fail(<<"Execution failed: ">> \o r.error),
                         Append(RegistryGet("greet", o), Executed("greet", r)))
      [] eval.id = "tool-005" ->
            IF o.get = "none"
            THEN Out(Panic(<<"unwrap on None">>),
                     RegistryGet("get_info", o))
            ELSE LET r == GetInfoToolExecute
                 IN  Out(IF r.ok
                         THEN IF IsJson(r.content) THEN Pass
                              ELSE Fail(<<"Result is not valid JSON: ">> \o r.content)
                         ELSE Fail(<<"Execution failed: ">> \o r.error),
                         Append(RegistryGet("get_info", o), Executed("get_info", r)))
      [] OTHER -> Out(Skip(<<"Unknown tool eval: ", eval.id>>), RegistrySetup)

(***************************************************************************)
(* Hook evals.  o.fire is what HookRegistry::fire does: the registered     *)
(* hooks it invokes (their indexes, in order) and the value it returns.    *)
(***************************************************************************)
PreToolUse(tool_name) == [type |-> "PreToolUse", tool_name |-> tool_name]
PostToolUse(tool_name) == [type |-> "PostToolUse", tool_name |-> tool_name]

LoggingHook == [kind |-> "LoggingHook"]
BlockingHook(block_tool) == [kind |-> "BlockingHook", block_tool |-> block_tool]
NamedHook(name) == [kind |-> "NamedHook", name |-> name]

\* What a hook's on_event pushes to the shared event list
OnEventLog(hook, event) ==
    CASE hook.kind = "LoggingHook" ->
            <<IF event.type = "PreToolUse" THEN <<"pre_tool_use:", event.tool_name>>
              ELSE <<"post_tool_use:", event.tool_name>>>>
      [] hook.kind = "NamedHook" -> <<<<hook.name>>>>
      [] OTHER -> << >>

\* the events list after fire: what the invoked hooks pushed, in order (an
\* index beyond the registered hooks invokes nothing)
RECURSIVE Logged(_, _, _)
Logged(hooks, event, invoked) ==
    IF invoked = << >> THEN << >>
    ELSE (IF Head(invoked) \in 1..Len(hooks)
          THEN OnEventLog(hooks[Head(invoked)], event) ELSE << >>)
         \o Logged(hooks, event, Tail(invoked))

HookSetup(hooks, event, o) ==
    <<[op |-> "HookRegistry::new"]>>
    \o [i \in 1..Len(hooks) |-> [op |-> "HookRegistry::register", arg |-> hooks[i]]]
    \o <<[op |-> "HookRegistry::fire", arg |-> event, ret |-> o.fire]>>

run_hook_eval(eval, o) ==
    CASE eval.id = "hook-001" ->
            LET hooks == <<LoggingHook>>
                event == PreToolUse("counter")
                logged == Logged(hooks, event, o.fire.invoked)
            IN  Out(IF \E i \in 1..Len(logged) : StartsWith(logged[i], <<"pre_tool_use:">>)
                    THEN Pass ELSE Fail(<<"PreToolUse hook did not fire">>),
                    HookSetup(hooks, event, o))
      [] eval.id = "hook-002" ->
            LET hooks == <<LoggingHook>>
                event == PostToolUse("counter")
                logged == Logged(hooks, event, o.fire.invoked)
            IN  Out(IF \E i \in 1..Len(logged) : StartsWith(logged[i], <<"post_tool_use:">>)
                    THEN Pass ELSE Fail(<<"PostToolUse hook did not fire">>),
                    HookSetup(hooks, event, o))
      [] eval.id = "hook-003" ->
            LET hooks == <<BlockingHook("dangerous")>>
                event == PreToolUse("dangerous")
            IN  Out(CASE o.fire.ret = "err" ->
                            Panic(<<"unwrap on Err">>)
                      [] o.fire.ret = "block" -> Pass
                      [] OTHER -> Fail(<<"Expected Block action">>),
                    HookSetup(hooks, event, o))
      [] eval.id = "hook-004" ->
            LET hooks == <<NamedHook("first"), NamedHook("second")>>
                event == PreToolUse("test")
                logged == Logged(hooks, event, o.fire.invoked)
            IN  Out(IF Len(logged) = 2 /\ logged[1] = <<"first">> /\ logged[2] = <<"second">>
                    THEN Pass
                    ELSE Fail(<<"Expected ['first', 'second'], got ">> \o
                              [i \in 1..Len(logged) |-> logged[i][1]]),
                    HookSetup(hooks, event, o))
      [] eval.id \in {"hook-005", "hook-006"} ->
            Out(Skip(<<"Requires agent execution">>), << >>)
      [] OTHER -> Out(Skip(<<"Unknown hook eval: ", eval.id>>), << >>)

(***************************************************************************)
(* Agent evals.  o.client: whether AnthropicClient::from_env() succeeds;   *)
(* o.llm[n]: what the n-th create_message of the eval answers; o.judge:    *)
(* what the judging model answers.                                         *)
(***************************************************************************)
FromEnv(client, o) == [op |-> "from_env", client |-> client, ret |-> o.client]

CreateMessage(client, n, o) == [op |-> "create_message", client |-> client, ret |-> o.llm[n]]

JudgeCall(j, o) ==
    [op |-> "Judge::evaluate", model |-> j.model, ret |-> JudgeEvaluate(o.judge)]

\* Judged with a slip: a judge that cannot be reached skips the eval
JudgedSkipsOnError(j, o) ==
    LET v == JudgeEvaluate(o.judge)
    IN  IF v.ok THEN (IF v.passed THEN Pass ELSE Fail(v.reason))
        ELSE Skip(<<"Judge error: ">> \o v.error)

\* match judge.evaluate(..).await { Ok((passed, reason)) => .., Err(e) => .. }
Judged(j, o) ==
    LET v == JudgeEvaluate(o.judge)
    IN  IF v.ok THEN (IF v.passed THEN Pass ELSE Fail(v.reason))
        ELSE Fail(<<"Judge error: ">> \o v.error)

\* agent-001 and the generic scenario: one request, then the judge
SingleTurn(j, o) ==
    IF ~o.client
    THEN Out(Panic(<<"unwrap on Err">>), <<FromEnv("AnthropicClient", o)>>)
    ELSE IF ~o.llm[1].ok
    THEN Out(Fail(<<"LLM request failed: ">> \o o.llm[1].error),
             <<FromEnv("AnthropicClient", o), CreateMessage("AnthropicClient", 1, o)>>)
    ELSE Out(Judged(j, o),
             <<FromEnv("AnthropicClient", o), CreateMessage("AnthropicClient", 1, o),
               JudgeCall(j, o)>>)

\* agent-003: two requests, then the judge
MultiTurn(j, o) ==
    IF ~o.client
    THEN Out(Panic(<<"unwrap on Err">>), <<FromEnv("AnthropicClient", o)>>)
    ELSE IF ~o.llm[1].ok
    THEN Out(Fail(<<"First turn failed: ">> \o o.llm[1].error),
             <<FromEnv("AnthropicClient", o), CreateMessage("AnthropicClient", 1, o)>>)
    ELSE IF ~o.llm[2].ok
    THEN Out(Fail(<<"Second turn failed: ">> \o o.llm[2].error),
             <<FromEnv("AnthropicClient", o), CreateMessage("AnthropicClient", 1, o),
               CreateMessage("AnthropicClient", 2, o)>>)
    ELSE Out(Judged(j, o),
             <<FromEnv("AnthropicClient", o), CreateMessage("AnthropicClient", 1, o),
               CreateMessage("AnthropicClient", 2, o), JudgeCall(j, o)>>)

\* run_agent_eval with a slip: the judge is looked for inside the scenarios
\* that use it, after the unimplemented ids have been matched
run_agent_eval_judge_late(eval, j, environment, o) ==
    IF "ANTHROPIC_API_KEY" \notin environment
    THEN Out(Skip(<<"ANTHROPIC_API_KEY", " not set">>), << >>)
    ELSE CASE eval.id \in {"agent-002", "agent-004", "agent-005", "agent-006"} ->
                Out(Skip(<<"Requires full agent loop with tools">>), << >>)
           [] j = Absent -> Out(Skip(<<"Judge not available for agent eval">>), << >>)
           [] eval.id = "agent-003" -> MultiTurn(j, o)
           [] OTHER -> SingleTurn(j, o)

run_agent_eval(eval, j, environment, o) ==
    IF "ANTHROPIC_API_KEY" \notin environment
    THEN Out(Skip(<<"ANTHROPIC_API_KEY", " not set">>), << >>)
    ELSE IF j = Absent
    THEN Out(Skip(<<"Judge not available for agent eval">>), << >>)
    ELSE CASE eval.id = "agent-001" -> SingleTurn(j, o)
           [] eval.id \in {"agent-002", "agent-004", "agent-005", "agent-006"} ->
                Out(Skip(<<"Requires full agent loop with tools">>), << >>)
           [] eval.id = "agent-003" -> MultiTurn(j, o)
           [] OTHER -> SingleTurn(j, o)

run_subagent_eval(eval, j) ==
    Out(Skip(<<"Subagent evals require mux-ffi integration">>), << >>)

run_mcp_eval(eval) ==
    Out(Skip(<<"MCP evals require running MCP server">>), << >>)

(***************************************************************************)
(* Transcript evals.  o.save[n]: whether the n-th save succeeds; o.load:   *)
(* how the store answers load, given the lists saved under the key.        *)
(***************************************************************************)
Message(role, content) == [role |-> role, content |-> content]

RECURSIVE Concat(_)
Concat(lists) == IF lists = << >> THEN << >> ELSE Head(lists) \o Concat(Tail(lists))

Reverse(q) == [i \in 1..Len(q) |-> q[Len(q) + 1 - i]]

\* TranscriptStore::load: Err, Ok(None) or Ok(Some(messages))
Found(some, messages) == [ok |-> TRUE, some |-> some, value |-> messages]

StoreLoad(behaviour, saves) ==
    CASE behaviour = "err" -> Err(<<"store error">>)
      [] behaviour = "none" -> Found(FALSE, << >>)
      [] behaviour = "empty_list" -> Found(TRUE, << >>)
      [] behaviour = "empty_message" -> Found(TRUE, <<Message("user", << >>)>>)
      [] behaviour = "other_tool" ->
            Found(TRUE, <<Message("assistant", <<ToolUseBlock("other")>>)>>)
      [] behaviour = "other_text" ->
            Found(TRUE, <<Message("user", <<TextBlock(<<"Other">>)>>)>>)
      [] saves = << >> -> Found(FALSE, << >>)
      [] behaviour = "last" -> Found(TRUE, saves[Len(saves)])
      [] behaviour = "first" -> Found(TRUE, saves[1])
      [] behaviour = "appended" -> Found(TRUE, Concat(saves))
      [] behaviour = "prepended" -> Found(TRUE, Concat(Reverse(saves)))

LoadBehaviours ==
    {"err", "none", "empty_list", "empty_message", "other_tool", "other_text",
     "last", "first", "appended", "prepended"}

StoreNew == [op |-> "MemoryTranscriptStore::new"]
Saved(n, messages, o) ==
    [op |-> "TranscriptStore::save", arg |-> messages,
     ret |-> IF o.save[n] THEN "ok" ELSE "err"]
Loaded(key, answer) == [op |-> "TranscriptStore::load", arg |-> key, ret |-> answer]

Greeting ==
    <<Message("user", <<TextBlock(<<"Hello">>)>>),
      Message("assistant", <<TextBlock(<<"Hi there">>)>>)>>

run_transcript_eval(eval, o) ==
    CASE eval.id = "transcript-001" ->
            Out(IF o.save[1] THEN Pass ELSE Fail(<<"Save failed: ", "store error">>),
                <<StoreNew, Saved(1, Greeting, o)>>)
      [] eval.id = "transcript-002" ->
            IF ~o.save[1]
            THEN Out(Fail(<<"Save failed: ", "store error">>),
                     <<StoreNew, Saved(1, Greeting, o)>>)
            ELSE LET a == StoreLoad(o.load, <<Greeting>>)
                 IN  Out(CASE ~a.ok -> Fail(<<"Load failed: ">> \o a.error)
                           [] ~a.some -> Fail(<<"Failed to load transcript">>)
                           [] Len(a.value) = 2 -> Pass
                           [] OTHER -> Fail(<<"Expected 2 messages, got ",
                                              ToString(Len(a.value))>>),
                         <<StoreNew, Saved(1, Greeting, o), Loaded("test-agent", a)>>)
      [] eval.id = "transcript-003" ->
            LET a == StoreLoad(o.load, << >>)
            IN  Out(CASE ~a.ok -> Fail(<<"Load failed: ">> \o a.error)
                      [] ~a.some -> Pass
                      [] OTHER -> Fail(<<"Expected None for missing transcript">>),
                    <<StoreNew, Loaded("nonexistent", a)>>)
      [] eval.id = "transcript-004" ->
            LET messages == <<Message("assistant", <<ToolUseBlock("bash")>>)>>
            IN  IF ~o.save[1]
                THEN Out(Fail(<<"Save failed: ", "store error">>),
                         <<StoreNew, Saved(1, messages, o)>>)
                ELSE LET a == StoreLoad(o.load, <<messages>>)
                     IN  Out(CASE ~a.ok -> Fail(<<"Load failed: ">> \o a.error)
                               [] ~a.some -> Fail(<<"Transcript not found">>)
                               [] a.value = << >> -> Panic(<<"index out of bounds">>)
                               [] a.value[1].content = << >> -> Panic(<<"index out of bounds">>)
                               [] a.value[1].content[1].type # "tool_use" ->
                                    Fail(<<"Tool use not preserved">>)
                               [] a.value[1].content[1].name = "bash" -> Pass
                               [] OTHER -> Fail(<<"Expected tool name 'bash', got '",
                                                  a.value[1].content[1].name, "'">>),
                             <<StoreNew, Saved(1, messages, o), Loaded("test-agent", a)>>)
      [] eval.id = "transcript-005" ->
            LET messages1 == <<Message("user", <<TextBlock(<<"First">>)>>)>>
                messages2 == <<Message("user", <<TextBlock(<<"Second">>)>>)>>
            IN  IF ~o.save[1]
                THEN Out(Fail(<<"First save failed: ", "store error">>),
                         <<StoreNew, Saved(1, messages1, o)>>)
                ELSE IF ~o.save[2]
                THEN Out(Fail(<<"Second save failed: ", "store error">>),
                         <<StoreNew, Saved(1, messages1, o), Saved(2, messages2, o)>>)
                ELSE LET a == StoreLoad(o.load, <<messages1, messages2>>)
                     IN  Out(CASE ~a.ok -> Fail(<<"Load failed: ">> \o a.error)
                               [] ~a.some -> Fail(<<"Transcript not found">>)
                               [] a.value = << >> -> Panic(<<"index out of bounds">>)
                               [] a.value[1].content = << >> -> Panic(<<"index out of bounds">>)
                               [] a.value[1].content[1].type # "text" ->
                                    Fail(<<"Wrong content type">>)
                               [] a.value[1].content[1].text = <<"Second">> -> Pass
                               [] OTHER -> Fail(<<"Expected 'Second', got '">> \o
                                                a.value[1].content[1].text \o <<"'">>),
                             <<StoreNew, Saved(1, messages1, o), Saved(2, messages2, o),
                               Loaded("test-agent", a)>>)
      [] OTHER -> Out(Skip(<<"Unknown transcript eval: ", eval.id>>), << >>)

(***************************************************************************)
(* LLM provider evals.  o.stream: the events create_message_stream yields. *)
(***************************************************************************)
\* llm-001, llm-003, llm-005: one request, a non-empty response passes
BasicCall(client, label, o) ==
    IF ~o.client
    THEN Out(Panic(<<"unwrap on Err">>), <<FromEnv(client, o)>>)
    ELSE Out(IF o.llm[1].ok
             THEN IF o.llm[1].content # << >> THEN Pass
                  ELSE Fail(<<"Empty response from ", label>>)
             ELSE Fail(<<label, " API error: ">> \o o.llm[1].error),
             <<FromEnv(client, o), CreateMessage(client, 1, o)>>)

\* the events the while-let loop consumes: up to and including the first Err
RECURSIVE Consumed(_)
Consumed(events) ==
    IF events = << >> THEN << >>
    ELSE IF Head(events) = "err" THEN <<"err">>
    ELSE <<Head(events)>> \o Consumed(Tail(events))

\* llm-002
StreamingCall(o) ==
    IF ~o.client
    THEN Out(Panic(<<"unwrap on Err">>), <<FromEnv("AnthropicClient", o)>>)
    ELSE LET seen == Consumed(o.stream)
         IN  Out(IF seen # << >> /\ seen[Len(seen)] = "err"
                 THEN Fail(<<"Stream error: ", "llm error">>)
                 ELSE IF seen # << >> THEN Pass
                 ELSE Fail(<<"No streaming events received">>),
                 <<FromEnv("AnthropicClient", o),
                   [op |-> "create_message_stream", client |-> "AnthropicClient",
                    ret |-> seen]>>)

\* run_llm_eval with a slip: the gemini branch does not look for its credential
run_llm_eval_gemini_unchecked(eval, environment, o) ==
    LET provider == IF eval.provider = None THEN "anthropic" ELSE eval.provider
    IN  CASE provider = "anthropic" ->
                IF "ANTHROPIC_API_KEY" \notin environment
                THEN Out(Skip(<<"ANTHROPIC_API_KEY", " not set">>), << >>)
                ELSE CASE eval.id = "llm-001" -> BasicCall("AnthropicClient", "Anthropic", o)
                       [] eval.id = "llm-002" -> StreamingCall(o)
                       [] OTHER -> Out(Skip(<<"Unknown Anthropic eval: ", eval.id>>), << >>)
          [] provider = "openai" ->
                IF "OPENAI_API_KEY" \notin environment
                THEN Out(Skip(<<"OPENAI_API_KEY", " not set">>), << >>)
                ELSE CASE eval.id = "llm-003" -> BasicCall("OpenAIClient", "OpenAI", o)
                       [] OTHER -> Out(Skip(<<"Unknown OpenAI eval: ", eval.id>>), << >>)
          [] provider = "gemini" ->
                CASE eval.id = "llm-005" -> BasicCall("GeminiClient", "Gemini", o)
                  [] OTHER -> Out(Skip(<<"Unknown Gemini eval: ", eval.id>>), << >>)
          [] OTHER -> Out(Skip(<<"Unknown LLM provider: ", provider>>), << >>)

\* run_llm_eval with a slip: the provider is taken from the id when the field
\* is absent
run_llm_eval_provider_by_id(eval, environment, o) ==
    LET provider == CASE eval.provider # None -> eval.provider
                      [] eval.id = "llm-003" -> "openai"
                      [] eval.id = "llm-005" -> "gemini"
                      [] OTHER -> "anthropic"
    IN  CASE provider = "anthropic" ->
                IF "ANTHROPIC_API_KEY" \notin environment
                THEN Out(Skip(<<"ANTHROPIC_API_KEY", " not set">>), << >>)
                ELSE CASE eval.id = "llm-001" -> BasicCall("AnthropicClient", "Anthropic", o)
                       [] eval.id = "llm-002" -> StreamingCall(o)
                       [] OTHER -> Out(Skip(<<"Unknown Anthropic eval: ", eval.id>>), << >>)
          [] provider = "openai" ->
                IF "OPENAI_API_KEY" \notin environment
                THEN Out(Skip(<<"OPENAI_API_KEY", " not set">>), << >>)
                ELSE CASE eval.id = "llm-003" -> BasicCall("OpenAIClient", "OpenAI", o)
                       [] OTHER -> Out(Skip(<<"Unknown OpenAI eval: ", eval.id>>), << >>)
          [] provider = "gemini" ->
                IF "GEMINI_API_KEY" \notin environment
                THEN Out(Skip(<<"GEMINI_API_KEY", " not set">>), << >>)
                ELSE CASE eval.id = "llm-005" -> BasicCall("GeminiClient", "Gemini", o)
                       [] OTHER -> Out(Skip(<<"Unknown Gemini eval: ", eval.id>>), << >>)
          [] OTHER -> Out(Skip(<<"Unknown LLM provider: ", provider>>), << >>)

run_llm_eval(eval, environment, o) ==
    LET provider == IF eval.provider = None THEN "anthropic" ELSE eval.provider
    IN  CASE provider = "anthropic" ->
                IF "ANTHROPIC_API_KEY" \notin environment
                THEN Out(Skip(<<"ANTHROPIC_API_KEY", " not set">>), << >>)
                ELSE CASE eval.id = "llm-001" -> BasicCall("AnthropicClient", "Anthropic", o)
                       [] eval.id = "llm-002" -> StreamingCall(o)
                       [] OTHER -> Out(Skip(<<"Unknown Anthropic eval: ", eval.id>>), << >>)
          [] provider = "openai" ->
                IF "OPENAI_API_KEY" \notin environment
                THEN Out(Skip(<<"OPENAI_API_KEY", " not set">>), << >>)
                ELSE CASE eval.id = "llm-003" -> BasicCall("OpenAIClient", "OpenAI", o)
                       [] OTHER -> Out(Skip(<<"Unknown OpenAI eval: ", eval.id>>), << >>)
          [] provider = "gemini" ->
                IF "GEMINI_API_KEY" \notin environment
                THEN Out(Skip(<<"GEMINI_API_KEY", " not set">>), << >>)
                ELSE CASE eval.id = "llm-005" -> BasicCall("GeminiClient", "Gemini", o)
                       [] OTHER -> Out(Skip(<<"Unknown Gemini eval: ", eval.id>>), << >>)
          [] OTHER -> Out(Skip(<<"Unknown LLM provider: ", provider>>), << >>)

(***************************************************************************)
(* run_eval                                                                *)
(***************************************************************************)
\* KeyMissing with a slip: only the categories that call a provider are gated
KeyMissingNetworkOnly(eval, environment) ==
    /\ eval.category \in {"agent", "subagent", "llm"}
    /\ eval.requires_key # None /\ eval.requires_key \notin environment

\* std::env::var(key).is_err() for the eval's requires_key: the eval is skipped
KeyMissing(eval, environment) ==
    eval.requires_key # None /\ eval.requires_key \notin environment

\* HandlerFor with a slip: the subagent arm calls the agent handler
HandlerForSubagentAsAgent(category) ==
    CASE category = "tools" -> "run_tool_eval"
      [] category = "hooks" -> "run_hook_eval"
      [] category \in {"agent", "subagent"} -> "run_agent_eval"
      [] category = "transcript" -> "run_transcript_eval"
      [] category = "mcp" -> "run_mcp_eval"
      [] category = "llm" -> "run_llm_eval"
      [] OTHER -> "none"

\* match eval.category.as_str(): the handler a category is routed to
HandlerFor(category) ==
    CASE category = "tools" -> "run_tool_eval"
      [] category = "hooks" -> "run_hook_eval"
      [] category = "agent" -> "run_agent_eval"
      [] category = "subagent" -> "run_subagent_eval"
      [] category = "transcript" -> "run_transcript_eval"
      [] category = "mcp" -> "run_mcp_eval"
      [] category = "llm" -> "run_llm_eval"
      [] OTHER -> "none"

Dispatch(eval, j, environment, o) ==
    LET h == HandlerFor(eval.category)
    IN  CASE h = "run_tool_eval" -> run_tool_eval(eval, o)
          [] h = "run_hook_eval" -> run_hook_eval(eval, o)
          [] h = "run_agent_eval" -> run_agent_eval(eval, j, environment, o)
          [] h = "run_subagent_eval" -> run_subagent_eval(eval, j)
          [] h = "run_transcript_eval" -> run_transcript_eval(eval, o)
          [] h = "run_mcp_eval" -> run_mcp_eval(eval)
          [] h = "run_llm_eval" -> run_llm_eval(eval, environment, o)
          [] OTHER -> Out(Skip(<<"Unknown category: ", eval.category>>), << >>)

\* What run_eval prints in verbose mode, before dispatch
VerboseLines(eval) ==
    <<[line |-> "given", id |-> eval.id], [line |-> "when", id |-> eval.id],
      [line |-> "then", id |-> eval.id]>>

run_eval(eval, verbose, j, environment, o) ==
    IF KeyMissing(eval, environment)
    THEN [result |-> Skip(<<eval.requires_key, " not set">>), handler |-> "none",
          calls |-> << >>, printed |-> << >>]
    ELSE LET out == Dispatch(eval, j, environment, o)
         IN  [result |-> out.result, handler |-> HandlerFor(eval.category),
              calls |-> out.calls,
              printed |-> IF verbose THEN VerboseLines(eval) ELSE << >>]

(***************************************************************************)
(* load_evals.  The evals path is a directory (its entries in read_dir     *)
(* order) or anything else (then it is the one file to open).  A file is   *)
(* its extension, whether File::open succeeds, and its lines; a line is    *)
(* blank, an eval record, or text that does not parse as one.  (A line    *)
(* that is not UTF-8 fails like an unreadable file and is left out.)       *)
(***************************************************************************)
\* MalformedLine(e): JSON that serde cannot read as an Eval (a field is missing
\* or has the wrong type) although its id and category read e.id, e.category
BlankLine == [kind |-> "blank"]
MalformedLine(e) == [kind |-> "malformed", eval |-> e]
EvalLine(e) == [kind |-> "eval", eval |-> e]

File(jsonl, readable, lines) == [jsonl |-> jsonl, readable |-> readable, lines |-> lines]

\* Retained with a slip: a record that passes either filter is kept
RetainedEither(eval, category_filter, id_filter) ==
    \/ category_filter = None /\ id_filter = None
    \/ category_filter # None /\ eval.category = category_filter
    \/ id_filter # None /\ eval.id = id_filter

\* the two filters of load_evals: whether a parsed record is pushed
Retained(eval, category_filter, id_filter) ==
    /\ category_filter = None \/ eval.category = category_filter
    /\ id_filter = None \/ eval.id = id_filter

\* LoadLines with a slip: the filters are applied to the raw record, before it
\* is parsed in full
RECURSIVE LoadLinesFilterFirst(_, _, _, _)
LoadLinesFilterFirst(lines, n, category_filter, id_filter) ==
    IF n > Len(lines) THEN [ok |-> TRUE, evals |-> << >>]
    ELSE IF lines[n].kind = "blank"
            \/ ~Retained(lines[n].eval, category_filter, id_filter)
    THEN LoadLinesFilterFirst(lines, n + 1, category_filter, id_filter)
    ELSE IF lines[n].kind # "eval"
    THEN [ok |-> FALSE, error |-> <<"Failed to parse line ", ToString(n)>>]
    ELSE LET rest == LoadLinesFilterFirst(lines, n + 1, category_filter, id_filter)
         IN  IF ~rest.ok THEN rest
             ELSE [ok |-> TRUE, evals |-> <<lines[n].eval>> \o rest.evals]

\* for (line_num, line) in reader.lines().enumerate(), from line n on
RECURSIVE LoadLines(_, _, _, _)
LoadLines(lines, n, category_filter, id_filter) ==
    IF n > Len(lines) THEN [ok |-> TRUE, evals |-> << >>]
    ELSE IF lines[n].kind = "blank"
    THEN LoadLines(lines, n + 1, category_filter, id_filter)
    ELSE IF lines[n].kind # "eval"
    THEN [ok |-> FALSE, error |-> <<"Failed to parse line ", ToString(n)>>]
    ELSE LET rest == LoadLines(lines, n + 1, category_filter, id_filter)
         IN  IF ~rest.ok THEN rest
             ELSE [ok |-> TRUE,
                   evals |-> (IF Retained(lines[n].eval, category_filter, id_filter)
                              THEN <<lines[n].eval>> ELSE << >>) \o rest.evals]

\* LoadFiles with a slip: a file's records are put in front of those read so far
RECURSIVE LoadFilesLastFirst(_, _, _)
LoadFilesLastFirst(files, category_filter, id_filter) ==
    IF files = << >> THEN [ok |-> TRUE, evals |-> << >>]
    ELSE IF ~Head(files).readable
    THEN [ok |-> FALSE, error |-> <<"Failed to open">>]
    ELSE LET these == LoadLines(Head(files).lines, 1, category_filter, id_filter)
         IN  IF ~these.ok THEN these
             ELSE LET rest == LoadFilesLastFirst(Tail(files), category_filter, id_filter)
                  IN  IF ~rest.ok THEN rest
                      ELSE [ok |-> TRUE, evals |-> rest.evals \o these.evals]

\* for file_path in files
RECURSIVE LoadFiles(_, _, _)
LoadFiles(files, category_filter, id_filter) ==
    IF files = << >> THEN [ok |-> TRUE, evals |-> << >>]
    ELSE IF ~Head(files).readable
    THEN [ok |-> FALSE, error |-> <<"Failed to open">>]
    ELSE LET these == LoadLines(Head(files).lines, 1, category_filter, id_filter)
         IN  IF ~these.ok THEN these
             ELSE LET rest == LoadFiles(Tail(files), category_filter, id_filter)
                  IN  IF ~rest.ok THEN rest
                      ELSE [ok |-> TRUE, evals |-> these.evals \o rest.evals]

IsJsonl(f) == f.jsonl

\* let files = if path.is_dir() { read_dir(path)? ... "jsonl" } else { vec![path] }
InputFiles(path) ==
    IF path.is_dir THEN SelectSeq(path.entries, IsJsonl) ELSE path.entries

load_evals(path, category_filter, id_filter) ==
    IF path.is_dir /\ ~path.listable
    THEN [ok |-> FALSE, error |-> <<"read_dir">>]
    ELSE LoadFiles(InputFiles(path), category_filter, id_filter)

(***************************************************************************)
(* main                                                                    *)
(***************************************************************************)
EnvVars == {"ANTHROPIC_API_KEY", "OPENAI_API_KEY", "GEMINI_API_KEY"}

DEFAULT_JUDGE_MODEL == "gpt-5-mini"

\* create_judge
create_judge(environment) ==
    IF "OPENAI_API_KEY" \in environment
    THEN [client |-> "OpenAIClient", model |-> "gpt-5-mini"]
    ELSE Absent

\* what main prints between load_evals and the run loop
StartupLines(j, loaded) ==
    (IF j # Absent THEN <<[line |-> "Judge agent enabled"]>> ELSE << >>)
    \o <<[line |-> "Running", n |-> Len(loaded)]>>

\* Tally with a slip: a skip is counted as a failure
TallySkipAsFail(res, p, f, s) ==
    CASE res.tag = "Pass" -> <<p + 1, f, s>>
      [] res.tag = "Fail" -> <<p, f + 1, s>>
      [] res.tag = "Skip" -> <<p, f + 1, s>>

\* Tally with a slip: a failure bumps the skip counter as well
TallyFailFallsThrough(res, p, f, s) ==
    CASE res.tag = "Pass" -> <<p + 1, f, s>>
      [] res.tag = "Fail" -> <<p, f + 1, s + 1>>
      [] res.tag = "Skip" -> <<p, f, s + 1>>

\* match &result: the counters after the outcome
Tally(res, p, f, s) ==
    CASE res.tag = "Pass" -> <<p + 1, f, s>>
      [] res.tag = "Fail" -> <<p, f + 1, s>>
      [] res.tag = "Skip" -> <<p, f, s + 1>>

\* ResultLines with a slip: failures-only hides the passes but not the skips
ResultLinesSkipShown(eval, res, failures_only) ==
    CASE res.tag = "Pass" ->
            IF ~failures_only THEN <<[line |-> "PASS", id |-> eval.id]>> ELSE << >>
      [] res.tag = "Fail" ->
            <<[line |-> "FAIL", id |-> eval.id, reason |-> res.reason]>>
      [] res.tag = "Skip" ->
            <<[line |-> "SKIP", id |-> eval.id, reason |-> res.reason]>>

\* match &result: the line printed for the outcome
ResultLines(eval, res, failures_only) ==
    CASE res.tag = "Pass" ->
            IF ~failures_only THEN <<[line |-> "PASS", id |-> eval.id]>> ELSE << >>
      [] res.tag = "Fail" ->
            <<[line |-> "FAIL", id |-> eval.id, reason |-> res.reason]>>
      [] res.tag = "Skip" ->
            IF ~failures_only
            THEN <<[line |-> "SKIP", id |-> eval.id, reason |-> res.reason]>>
            ELSE << >>

SummaryLine(p, f, s) == [line |-> "Results", passed |-> p, failed |-> f, skipped |-> s]

\* if failed > 0 { std::process::exit(1) }; Ok(())
ExitStatus(f) == IF f > 0 THEN 1 ELSE 0

(***************************************************************************)
(* The collaborators' answers an eval may meet.                            *)
(***************************************************************************)
Hello == <<TextBlock(<<"hello">>)>>

FireAnswers ==
    [invoked : {<< >>, <<1>>, <<2>>, <<1, 2>>, <<2, 1>>},
     ret : {"continue", "block", "err"}]

Streams == {<< >>, <<"ok">>, <<"err">>, <<"ok", "ok">>, <<"ok", "err">>}

\* the judging model's answers in a run: an error, replies in the grammar, and
\* replies outside it
RunReplies ==
    {<<"VERDICT:", " ", "PASS", "\n", "REASON:", " ", "Correct.">>,
     <<"VERDICT:", " ", "FAIL", "\n", "REASON:", " ", "Wrong.">>,
     <<"VERDICT:", " ", "FAIL", "\n", "REASON:">>,
     <<"VERDICT:", " ", "PASS">>,
     <<"ok">>}

JudgeAnswers == {LlmError, LlmOk(<< >>)} \cup {LlmOk(<<TextBlock(t)>>) : t \in RunReplies}

BaseOracle ==
    [get |-> "some", fire |-> [invoked |-> << >>, ret |-> "continue"],
     save |-> <<TRUE, TRUE>>, load |-> "last", client |-> TRUE,
     llm |-> <<LlmOk(Hello), LlmOk(Hello)>>, stream |-> << >>, judge |-> LlmError]

\* The answers the eval's scenario may consume; an answer no scenario of the
\* eval asks for stays at its BaseOracle value.
Oracles(eval) ==
    CASE eval.category = "tools" ->
            {[BaseOracle EXCEPT !.get = g] : g \in {"some", "none"}}
      [] eval.category = "hooks" ->
            {[BaseOracle EXCEPT !.fire = f] : f \in FireAnswers}
      [] eval.category = "transcript" ->
            CASE eval.id = "transcript-001" ->
                    {[BaseOracle EXCEPT !.save = <<s1, TRUE>>] : s1 \in BOOLEAN}
              [] eval.id \in {"transcript-002", "transcript-004"} ->
                    {[BaseOracle EXCEPT !.save = <<s1, TRUE>>, !.load = l] :
                        s1 \in BOOLEAN, l \in LoadBehaviours}
              [] eval.id = "transcript-003" ->
                    {[BaseOracle EXCEPT !.load = l] : l \in LoadBehaviours}
              [] eval.id = "transcript-005" ->
                    {[BaseOracle EXCEPT !.save = <<s1, s2>>, !.load = l] :
                        s1 \in BOOLEAN, s2 \in BOOLEAN, l \in LoadBehaviours}
              [] OTHER -> {BaseOracle}
      [] eval.category = "agent" ->
            CASE eval.id \in {"agent-002", "agent-004", "agent-005", "agent-006"} ->
                    {BaseOracle}
              [] eval.id = "agent-003" ->
                    {[BaseOracle EXCEPT !.client = c, !.llm = <<l1, l2>>, !.judge = jr] :
                        c \in BOOLEAN, l1 \in {LlmError, LlmOk(Hello)},
                        l2 \in {LlmError, LlmOk(Hello)}, jr \in JudgeAnswers}
              [] OTHER ->
                    {[BaseOracle EXCEPT !.client = c, !.llm = <<l1, l1>>, !.judge = jr] :
                        c \in BOOLEAN, l1 \in {LlmError, LlmOk(Hello)},
                        jr \in JudgeAnswers}
      [] eval.category = "llm" ->
            CASE eval.id = "llm-002" ->
                    {[BaseOracle EXCEPT !.client = c, !.stream = st] :
                        c \in BOOLEAN, st \in Streams}
              [] eval.id \in {"llm-001", "llm-003", "llm-005"} ->
                    {[BaseOracle EXCEPT !.client = c, !.llm = <<l1, l1>>] :
                        c \in BOOLEAN, l1 \in {LlmError, LlmOk(<< >>), LlmOk(Hello)}}
              [] OTHER -> {BaseOracle}
      [] OTHER -> {BaseOracle}

(***************************************************************************)
(* The steps of main.                                                      *)
(***************************************************************************)
\* let evals = load_evals(&args.evals, args.category, args.id)?;
Load ==
    /\ pc = "start"
    /\ LET loaded == load_evals(fs, args.category, args.id)
       IN  IF loaded.ok
           THEN /\ evals' = loaded.evals
                /\ pc' = "judge"
                /\ UNCHANGED exit_code
           ELSE /\ pc' = "aborted"
                /\ exit_code' = <<1>>
                /\ UNCHANGED evals
    /\ UNCHANGED <<args, env, fs, judge, cursor, passed, failed, skipped, stdout,
                   result, handler, calls, outcomes, response, verdict>>

\* let judge = create_judge(); the two startup lines; the counters
CreateJudge ==
    /\ pc = "judge"
    /\ judge' = create_judge(env)
    /\ stdout' = stdout \o StartupLines(judge', evals)
    /\ passed' = 0 /\ failed' = 0 /\ skipped' = 0
    /\ pc' = "run"
    /\ UNCHANGED <<args, env, fs, evals, cursor, exit_code, result, handler, calls, outcomes,
                   response, verdict>>

\* RunEval with a slip: the hooks' event log is shared by the evals of the run,
\* so hook-004 finds the names an earlier hook-004 logged in front of its own
RunEvalSharedLog ==
    /\ pc = "run"
    /\ cursor < Len(evals)
    /\ \E o \in Oracles(evals[cursor + 1]) :
          LET eval == evals[cursor + 1]
              fresh == run_eval(eval, args.verbose, judge, env, o)
              stale == \E j \in 1..cursor :
                          /\ evals[j].category = "hooks" /\ evals[j].id = "hook-004"
                          /\ outcomes[j] = Pass
              r == IF stale /\ fresh.handler = "run_hook_eval" /\ eval.id = "hook-004"
                   THEN [fresh EXCEPT !.result =
                            Fail(<<"Expected ['first', 'second'], got ",
                                   "first", "second", "first", "second">>)]
                   ELSE fresh
          IN  /\ cursor' = cursor + 1
              /\ result' = r.result
              /\ handler' = r.handler
              /\ calls' = r.calls
              /\ outcomes' = Append(outcomes, r.result)
              /\ IF r.result.tag = "Panic"
                 THEN /\ pc' = "panicked"
                      /\ exit_code' = <<101>>
                      /\ stdout' = stdout \o r.printed
                      /\ UNCHANGED <<passed, failed, skipped>>
                 ELSE LET t == Tally(r.result, passed, failed, skipped)
                      IN  /\ pc' = "run"
                          /\ passed' = t[1] /\ failed' = t[2] /\ skipped' = t[3]
                          /\ stdout' = stdout \o r.printed
                                       \o ResultLines(eval, r.result, args.failures_only)
                          /\ UNCHANGED exit_code
    /\ UNCHANGED <<args, env, fs, evals, judge, response, verdict>>

\* one iteration of `for eval in &evals`
RunEval ==
    /\ pc = "run"
    /\ cursor < Len(evals)
    /\ \E o \in Oracles(evals[cursor + 1]) :
          LET eval == evals[cursor + 1]
              r == run_eval(eval, args.verbose, judge, env, o)
          IN  /\ cursor' = cursor + 1
              /\ result' = r.result
              /\ handler' = r.handler
              /\ calls' = r.calls
              /\ outcomes' = Append(outcomes, r.result)
              /\ IF r.result.tag = "Panic"
                 THEN /\ pc' = "panicked"
                      /\ exit_code' = <<101>>
                      /\ stdout' = stdout \o r.printed
                      /\ UNCHANGED <<passed, failed, skipped>>
                 ELSE LET t == Tally(r.result, passed, failed, skipped)
                      IN  /\ pc' = "run"
                          /\ passed' = t[1] /\ failed' = t[2] /\ skipped' = t[3]
                          /\ stdout' = stdout \o r.printed
                                       \o ResultLines(eval, r.result, args.failures_only)
                          /\ UNCHANGED exit_code
    /\ UNCHANGED <<args, env, fs, evals, judge, response, verdict>>

\* Summary with a slip: the summary is printed without waiting for the loop
SummaryEarly ==
    /\ pc = "run"
    /\ stdout' = Append(stdout, SummaryLine(passed, failed, skipped))
    /\ pc' = "exit"
    /\ UNCHANGED <<args, env, fs, evals, judge, cursor, passed, failed, skipped,
                   exit_code, result, handler, calls, outcomes, response, verdict>>

\* the summary line, once the loop is over
Summary ==
    /\ pc = "run"
    /\ cursor = Len(evals)
    /\ stdout' = Append(stdout, SummaryLine(passed, failed, skipped))
    /\ pc' = "exit"
    /\ UNCHANGED <<args, env, fs, evals, judge, cursor, passed, failed, skipped,
                   exit_code, result, handler, calls, outcomes, response, verdict>>

\* if failed > 0 { exit(1) }  Ok(())
Exit ==
    /\ pc = "exit"
    /\ exit_code' = <<ExitStatus(failed)>>
    /\ pc' = "done"
    /\ UNCHANGED <<args, env, fs, evals, judge, cursor, passed, failed, skipped,
                   stdout, result, handler, calls, outcomes, response, verdict>>

Next == Load \/ CreateJudge \/ RunEval \/ Summary \/ Exit

(***************************************************************************)
(* Inputs.                                                                 *)
(***************************************************************************)
Eval(id, category, provider, requires_key) ==
    [id |-> id, category |-> category, provider |-> provider,
     requires_key |-> requires_key]

Args(category, id, verbose, failures_only, judge_model) ==
    [category |-> category, id |-> id, verbose |-> verbose,
     failures_only |-> failures_only, judge_model |-> judge_model]

\* the ids the handlers know, and one they do not
Ids ==
    {"tool-001", "tool-002", "tool-003", "tool-004", "tool-005",
     "hook-001", "hook-002", "hook-003", "hook-004", "hook-005", "hook-006",
     "agent-001", "agent-002", "agent-003", "agent-004", "agent-005", "agent-006",
     "transcript-001", "transcript-002", "transcript-003", "transcript-004",
     "transcript-005",
     "llm-001", "llm-002", "llm-003", "llm-005", "custom-001"}

\* the categories the dispatcher knows, and one it does not
Categories == {"tools", "hooks", "agent", "subagent", "transcript", "mcp", "llm", "perf"}

Providers == {None, "anthropic", "openai", "gemini", "mistral"}

RequiredKeys == {None} \cup EnvVars

Started ==
    /\ cursor = 0 /\ passed = 0 /\ failed = 0 /\ skipped = 0
    /\ exit_code = << >> /\ result = Absent /\ handler = "none" /\ calls = << >>
    /\ outcomes = << >>
    /\ response = Absent /\ verdict = Absent

MaxEvals == 3
MaxLines == 3

(***************************************************************************)
(* The whole program on a file of up to MaxEvals eval records.             *)
(***************************************************************************)
RunCases ==
    {Eval(id, c, None, None) : id \in {"tool-001", "agent-001"}, c \in {"tools", "agent"}}

Init ==
    /\ Started
    /\ pc = "start"
    /\ evals = << >> /\ judge = Absent /\ stdout = << >>
    /\ env \in SUBSET {"ANTHROPIC_API_KEY", "OPENAI_API_KEY"}
    /\ \E f \in BOOLEAN, m \in {DEFAULT_JUDGE_MODEL, "gpt-4o"} :
          args = Args(None, None, FALSE, f, m)
    /\ \E n \in 0..MaxEvals : \E es \in [1..n -> RunCases] :
          fs = [is_dir |-> FALSE, listable |-> TRUE,
                entries |-> <<File(TRUE, TRUE, [i \in 1..n |-> EvalLine(es[i])])>>]

Spec == Init /\ [][Next]_vars

(***************************************************************************)
(* The whole program on every small evals path: a directory of up to two   *)
(* entries or a single file, MaxLines lines in all, with and without the   *)
(* two filters.                                                            *)
(***************************************************************************)
LoadCases ==
    {Eval("tool-001", "tools", None, None), Eval("tool-001", "mcp", None, None),
     Eval("custom-001", "tools", None, None)}

LinePool ==
    {BlankLine, MalformedLine(Eval("custom-001", "mcp", None, None))}
    \cup {EvalLine(e) : e \in LoadCases}

\* the files of n lines: readable ones, and for n = 0 one that cannot be opened
FilesWith(n) ==
    {File(TRUE, TRUE, l) : l \in [1..n -> LinePool]}
    \cup (IF n = 0 THEN {File(TRUE, FALSE, << >>)} ELSE {})

\* a directory entry that is no .jsonl file
OtherEntry == File(FALSE, TRUE, <<MalformedLine(Eval("custom-001", "mcp", None, None))>>)

Directory(entries) == [is_dir |-> TRUE, listable |-> TRUE, entries |-> entries]

InitLoad ==
    /\ Started
    /\ pc = "start"
    /\ evals = << >> /\ judge = Absent /\ stdout = << >>
    /\ env = {}
    /\ \E c \in {None, "tools"}, i \in {None, "tool-001"} :
          args = Args(c, i, FALSE, FALSE, DEFAULT_JUDGE_MODEL)
    /\ \/ fs = [is_dir |-> TRUE, listable |-> FALSE, entries |-> << >>]
       \/ fs = Directory(<< >>)
       \/ \E n \in 0..MaxLines : \E f \in FilesWith(n) :
             \/ fs = [is_dir |-> FALSE, listable |-> TRUE, entries |-> <<f>>]
             \/ fs = Directory(<<f>>)
             \/ fs = Directory(<<OtherEntry, f>>)
       \/ \E n1 \in 0..MaxLines : \E n2 \in 0..(MaxLines - n1) :
             \E f1 \in FilesWith(n1), f2 \in FilesWith(n2) : fs = Directory(<<f1, f2>>)

SpecLoad == InitLoad /\ [][Next]_vars

(***************************************************************************)
(* run_eval alone: main at the top of its loop over one loaded eval, for   *)
(* every eval record and environment.                                      *)
(***************************************************************************)
InitEval ==
    /\ Started
    /\ pc = "run"
    /\ env \in SUBSET EnvVars
    /\ \E v \in BOOLEAN : args = Args(None, None, v, FALSE, DEFAULT_JUDGE_MODEL)
    /\ \E id \in Ids, c \in Categories, p \in Providers, k \in RequiredKeys :
          evals = <<Eval(id, c, p, k)>>
    /\ fs = [is_dir |-> FALSE, listable |-> TRUE,
             entries |-> <<File(TRUE, TRUE, <<EvalLine(evals[1])>>)>>]
    /\ judge = create_judge(env)
    /\ stdout = StartupLines(judge, evals)

NextEval == RunEval

SpecEval == InitEval /\ [][NextEval]_vars

(***************************************************************************)
(* The run loop over up to MaxRun records of the tools, hooks and          *)
(* transcript categories, the same record any number of times.             *)
(***************************************************************************)
MaxRun == 2

RepeatCases ==
    {Eval("tool-001", "tools", None, None), Eval("tool-003", "tools", None, None),
     Eval("hook-001", "hooks", None, None), Eval("hook-003", "hooks", None, None),
     Eval("hook-004", "hooks", None, None),
     Eval("transcript-002", "transcript", None, None),
     Eval("transcript-003", "transcript", None, None),
     Eval("transcript-005", "transcript", None, None)}

InitRepeat ==
    /\ Started
    /\ pc = "run"
    /\ env \in {{}, {"OPENAI_API_KEY"}}
    /\ args = Args(None, None, FALSE, FALSE, DEFAULT_JUDGE_MODEL)
    /\ \E n \in 1..MaxRun : \E es \in [1..n -> RepeatCases] :
          /\ evals = es
          /\ fs = [is_dir |-> FALSE, listable |-> TRUE,
                   entries |-> <<File(TRUE, TRUE, [i \in 1..n |-> EvalLine(es[i])])>>]
    /\ judge = create_judge(env)
    /\ stdout = StartupLines(judge, evals)

NextRepeat == RunEval \/ Summary \/ Exit

SpecRepeat == InitRepeat /\ [][NextRepeat]_vars

(***************************************************************************)
(* Judge::evaluate alone: the response is the input, one step applies it.  *)
(***************************************************************************)
Idle ==
    /\ args = Absent /\ env = {} /\ fs = Absent /\ evals = << >> /\ judge = Absent
    /\ cursor = 0 /\ passed = 0 /\ failed = 0 /\ skipped = 0
    /\ stdout = << >> /\ exit_code = << >> /\ result = Absent
    /\ handler = "none" /\ calls = << >> /\ outcomes = << >>

InitJudge ==
    /\ Idle
    /\ pc = "evaluate"
    /\ \/ response = LlmError
       \/ response = LlmOk(<< >>)
       \/ \E t \in Texts \cup GrammarReplies :
             \E k \in 0..(Len(t) - 1) : response = LlmOk(Content(t, k))
    /\ verdict = Absent

Evaluate ==
    /\ pc = "evaluate"
    /\ verdict' = JudgeEvaluate(response)
    /\ pc' = "evaluated"
    /\ UNCHANGED <<args, env, fs, evals, judge, cursor, passed, failed, skipped,
                   stdout, exit_code, result, handler, calls, outcomes, response>>

NextJudge == Evaluate

SpecJudge == InitJudge /\ [][NextJudge]_vars

(***************************************************************************)
(* Claims about Judge::evaluate (checked under SpecJudge).                 *)
(***************************************************************************)
\* The judged text: the atoms of the response's text blocks, in order.
JudgedText == JoinText(response.content)

\* "VERDICT: PASS" occurs in t at position i
VerdictPassAt(t, i) ==
    /\ i + 2 <= Len(t)
    /\ t[i] = "VERDICT:" /\ t[i + 1] = " " /\ t[i + 2] = "PASS"

\* positions of t where a line begins with "REASON:"
ReasonLineStarts(t) ==
    {i \in 1..Len(t) : t[i] = "REASON:" /\ (i = 1 \/ t[i - 1] = "\n")}

\* t follows the two-line grammar: VERDICT: PASS|FAIL, newline, REASON: and a
\* sentence on one line
FollowsGrammar(t) ==
    /\ Len(t) >= 7
    /\ SubSeq(t, 1, 2) = <<"VERDICT:", " ">>
    /\ t[3] \in {"PASS", "FAIL"}
    /\ SubSeq(t, 4, 6) = <<"\n", "REASON:", " ">>
    /\ t[7] \notin Whitespace \cup {"VERDICT:", "REASON:"}
    /\ \A i \in 8..Len(t) : t[i] = "\n" => i = Len(t)

\* C5 as claimed: evaluate errs only when create_message errs, and every
\* response outside the two-line grammar yields (false, "No reason provided").
C5_Original ==
    pc = "evaluated" =>
        /\ (~verdict.ok => ~response.ok)
        /\ (response.ok /\ ~FollowsGrammar(JudgedText)) =>
               (verdict.ok /\ verdict.passed = FALSE /\ verdict.reason = NO_REASON)

\* C5 (amended): evaluate errs exactly when create_message errs; a response
\* outside the grammar is never an error, its verdict is false when the text
\* lacks "VERDICT: PASS" and its reason is "No reason provided" when no line
\* begins with "REASON:".
C5_MalformedDegrades ==
    pc = "evaluated" =>
        /\ (verdict.ok <=> response.ok)
        /\ (response.ok /\ ~FollowsGrammar(JudgedText)) =>
               /\ (~\E i \in 1..Len(JudgedText) : VerdictPassAt(JudgedText, i))
                     => verdict.passed = FALSE
               /\ ReasonLineStarts(JudgedText) = {} => verdict.reason = NO_REASON

C5_Witness ==
    /\ pc = "evaluated" /\ response.ok
    /\ JudgedText = <<"ok", "\n", "VERDICT:", "ok">>
    /\ verdict = [ok |-> TRUE, passed |-> FALSE, reason |-> NO_REASON]

\* C6: passed is true iff the judged text contains "VERDICT: PASS" at some
\* position, whatever precedes or follows it.
C6_PassedIffSubstring ==
    (pc = "evaluated" /\ response.ok) =>
        (verdict.passed <=> \E i \in 1..Len(JudgedText) : VerdictPassAt(JudgedText, i))

\* the substring in mid-line, cut across two text blocks, no REASON line
C6_Witness ==
    /\ pc = "evaluated" /\ response.ok
    /\ Len(response.content) = 3
    /\ JudgedText = <<"ok", "VERDICT:", " ", "PASS">>
    /\ response.content[1].text = <<"ok", "VERDICT:">>
    /\ verdict.passed = TRUE

\* the first line of t that begins with "REASON:", without its line ending
FirstReasonLine(t) ==
    LET i == CHOOSE m \in ReasonLineStarts(t) : \A n \in ReasonLineStarts(t) : m <= n
        ends == {j \in i..Len(t) : t[j] = "\n"}
        j == IF ends = {} THEN Len(t) + 1
             ELSE CHOOSE m \in ends : \A n \in ends : m <= n
    IN  SubSeq(t, i, j - 1)

\* C7 as claimed: the reason is the first line beginning with "REASON:" with
\* that one prefix and the surrounding whitespace removed, else "No reason
\* provided".
C7_Original ==
    (pc = "evaluated" /\ response.ok) =>
        verdict.reason =
            IF ReasonLineStarts(JudgedText) = {} THEN NO_REASON
            ELSE Trim(Tail(FirstReasonLine(JudgedText)))

(***************************************************************************)
(* Claims about the run (Spec), about run_eval (SpecEval) and about        *)
(* load_evals (SpecLoad).                                                  *)
(***************************************************************************)
\* how many of the evals run so far ended with the tag
Count(tag) == Cardinality({i \in 1..Len(outcomes) : outcomes[i].tag = tag})

\* C1: a run that loaded and processed all its evals exits 0 iff no outcome
\* was Fail and 1 otherwise, however many Skip and Pass outcomes there were.
C1_ExitStatus ==
    pc = "done" =>
        /\ Len(outcomes) = Len(evals)
        /\ exit_code = IF \E i \in 1..Len(outcomes) : outcomes[i].tag = "Fail"
                       THEN <<1>> ELSE <<0>>

\* a run with a skipped and a passed eval and no failure, exit status 0
C1_Witness ==
    /\ pc = "done" /\ exit_code = <<0>>
    /\ Count("Skip") >= 1 /\ Count("Pass") >= 1 /\ Count("Fail") = 0

\* C2: every outcome adds one to exactly one counter, so the counters count
\* the outcomes of each kind, their sum is the number of evals processed, and
\* the summary line's sum is the number of loaded evals.
C2_CountersPartition ==
    pc \in {"run", "exit", "done"} =>
        /\ passed = Count("Pass") /\ failed = Count("Fail") /\ skipped = Count("Skip")
        /\ passed + failed + skipped = cursor
        /\ pc \in {"exit", "done"} =>
              LET l == stdout[Len(stdout)]
              IN  /\ l.line = "Results"
                  /\ l.passed + l.failed + l.skipped = Len(evals)

\* a finished run with one outcome of each kind
C2_Witness ==
    /\ pc = "done"
    /\ passed = 1 /\ failed = 1 /\ skipped = 1

\* the eval run_eval ran last, and whether its requires_key is set and unset
\* in the environment
LastEval == evals[cursor]
Gated == LastEval.requires_key # None /\ LastEval.requires_key \notin env

\* C3: an eval whose requires_key names an unset variable yields
\* Skip("<key> not set") whatever its category; no handler runs, no
\* collaborator is called and verbose mode prints nothing for it.
C3_GateSkips ==
    (cursor = 1 /\ Gated) =>
        /\ result = Skip(<<LastEval.requires_key, " not set">>)
        /\ handler = "none"
        /\ calls = << >>
        /\ \A i \in 1..Len(stdout) : stdout[i].line \notin {"given", "when", "then"}

\* a tools eval gated on a key that is unset while another key is set, verbose
C3_Witness ==
    /\ cursor = 1 /\ args.verbose
    /\ LastEval = Eval("tool-001", "tools", None, "GEMINI_API_KEY")
    /\ env = {"OPENAI_API_KEY"}
    /\ result = Skip(<<"GEMINI_API_KEY", " not set">>)

\* C4: past the gate the category alone picks the handler, each of the seven
\* categories its own; any other category yields Skip("Unknown category: <c>")
\* and runs no handler.
C4_Dispatch ==
    (cursor = 1 /\ ~Gated) =>
        LET c == LastEval.category
        IN  /\ c = "tools" => handler = "run_tool_eval"
            /\ c = "hooks" => handler = "run_hook_eval"
            /\ c = "agent" => handler = "run_agent_eval"
            /\ c = "subagent" =>
                  /\ handler = "run_subagent_eval"
                  /\ result = Skip(<<"Subagent evals require mux-ffi integration">>)
            /\ c = "transcript" => handler = "run_transcript_eval"
            /\ c = "mcp" =>
                  /\ handler = "run_mcp_eval"
                  /\ result = Skip(<<"MCP evals require running MCP server">>)
            /\ c = "llm" => handler = "run_llm_eval"
            /\ c \notin {"tools", "hooks", "agent", "subagent", "transcript", "mcp", "llm"} =>
                  /\ handler = "none"
                  /\ result = Skip(<<"Unknown category: ", c>>)
                  /\ calls = << >>

\* an unknown category past the gate, its required key being set
C4_Witness ==
    /\ cursor = 1
    /\ LastEval = Eval("tool-001", "perf", None, "OPENAI_API_KEY")
    /\ "OPENAI_API_KEY" \in env
    /\ result = Skip(<<"Unknown category: ", "perf">>)

\* the eval called Judge::evaluate and it returned an error
JudgeFailed ==
    \E i \in 1..Len(calls) : calls[i].op = "Judge::evaluate" /\ ~calls[i].ret.ok

\* C8: in every agent scenario that calls the Judge, an error from
\* Judge::evaluate makes the outcome Fail with a reason that starts with
\* "Judge error", never Skip or Pass.
C8_JudgeErrorFails ==
    (cursor = 1 /\ JudgeFailed) =>
        /\ result.tag = "Fail"
        /\ Head(result.reason) = "Judge error: "

\* the two-turn scenario, both turns answered, the judge unreachable
C8_Witness ==
    /\ cursor = 1 /\ LastEval.id = "agent-003" /\ LastEval.category = "agent"
    /\ Len(calls) = 4 /\ JudgeFailed
    /\ result = Fail(<<"Judge error: ", "llm error">>)

\* C9: the Judge is what startup made of the environment; without one, every
\* agent eval that reaches its handler with the agent credential set yields
\* Skip("Judge not available for agent eval"), whatever its id, and calls no
\* provider.
C9_NoJudgeSkips ==
    /\ judge = Absent <=> "OPENAI_API_KEY" \notin env
    /\ (cursor = 1 /\ ~Gated /\ LastEval.category = "agent" /\ judge = Absent
        /\ "ANTHROPIC_API_KEY" \in env) =>
            /\ result = Skip(<<"Judge not available for agent eval">>)
            /\ calls = << >>

\* an id whose scenario is unimplemented, the agent credential set, no Judge
C9_Witness ==
    /\ cursor = 1 /\ LastEval = Eval("agent-002", "agent", None, "ANTHROPIC_API_KEY")
    /\ env = {"ANTHROPIC_API_KEY", "GEMINI_API_KEY"}
    /\ judge = Absent
    /\ result = Skip(<<"Judge not available for agent eval">>)

\* the files load_evals opens: the path itself, or the directory's .jsonl entries
OpenedFiles ==
    {fs.entries[i] : i \in {k \in 1..Len(fs.entries) : ~fs.is_dir \/ fs.entries[k].jsonl}}

\* some opened file cannot be opened, or holds a line that is no eval record
BadInput ==
    \E f \in OpenedFiles :
        \/ ~f.readable
        \/ \E n \in 1..Len(f.lines) : f.lines[n].kind = "malformed"

\* C10: one unparseable non-blank line or one file that cannot be opened makes
\* load_evals fail with no eval list, even if the filters exclude the record;
\* the run aborts with no eval run, no counter touched and nothing printed.
C10_LoadAllOrNothing ==
    (pc # "start" /\ BadInput) =>
        /\ pc = "aborted"
        /\ evals = << >>
        /\ cursor = 0 /\ outcomes = << >>
        /\ passed = 0 /\ failed = 0 /\ skipped = 0
        /\ stdout = << >>

\* a retained record, then a malformed one that both filters would exclude
C10_Witness ==
    /\ pc = "aborted"
    /\ args.category = "tools" /\ args.id = "tool-001"
    /\ ~fs.is_dir
    /\ fs.entries[1].lines =
          <<EvalLine(Eval("tool-001", "tools", None, None)),
            MalformedLine(Eval("custom-001", "mcp", None, None))>>

\* the load succeeded: main is past load_evals and did not abort
LoadedOk == pc \notin {"start", "aborted"}

\* the lines of the opened files, in the order they are read
RECURSIVE AllLines(_)
AllLines(files) ==
    IF files = << >> THEN << >> ELSE Head(files).lines \o AllLines(Tail(files))

NonBlank(l) == l.kind # "blank"

\* the records of the non-blank lines, in the order they are read
ParsedRecords ==
    LET ls == SelectSeq(AllLines(InputFiles(fs)), NonBlank)
    IN  [i \in 1..Len(ls) |-> ls[i].eval]

\* C11: a successful load retains a parsed record iff the category filter is
\* absent or equals its category and the id filter is absent or equals its id;
\* records sharing an id are all retained.
C11_FiltersIntersect ==
    LoadedOk =>
        LET Keep(e) == /\ (args.category # None => e.category = args.category)
                       /\ (args.id # None => e.id = args.id)
        IN  evals = SelectSeq(ParsedRecords, Keep)

\* both filters set; three records share the id, the one of another category
\* is dropped and the two equal ones are both retained
C11_Witness ==
    /\ LoadedOk
    /\ args.category = "tools" /\ args.id = "tool-001"
    /\ ParsedRecords = <<Eval("tool-001", "tools", None, None),
                         Eval("tool-001", "mcp", None, None),
                         Eval("tool-001", "tools", None, None)>>
    /\ evals = <<Eval("tool-001", "tools", None, None),
                 Eval("tool-001", "tools", None, None)>>

\* the positions <<file, line>> of the non-blank lines of the opened files
NonBlankPositions ==
    {<<f, n>> \in (1..Len(InputFiles(fs))) \X (1..MaxLines + 1) :
        n <= Len(InputFiles(fs)[f].lines) /\ NonBlank(InputFiles(fs)[f].lines[n])}

\* position a is read before position b
ReadBefore(a, b) == a[1] < b[1] \/ (a[1] = b[1] /\ a[2] < b[2])

\* C12: with no filters a successful load returns one eval per non-blank line,
\* and the k-th eval is the record of the k-th non-blank line in read order:
\* files in the order read, lines in file order.
C12_CountAndOrder ==
    (LoadedOk /\ args.category = None /\ args.id = None) =>
        /\ Len(evals) = Cardinality(NonBlankPositions)
        /\ \A a \in NonBlankPositions :
              LET k == Cardinality({b \in NonBlankPositions : ReadBefore(b, a)}) + 1
              IN  evals[k] = InputFiles(fs)[a[1]].lines[a[2]].eval

\* two files, a blank line in the first, different records in each
C12_Witness ==
    /\ LoadedOk /\ args.category = None /\ args.id = None
    /\ fs.is_dir /\ Len(fs.entries) = 2
    /\ fs.entries[1].lines = <<BlankLine, EvalLine(Eval("custom-001", "tools", None, None))>>
    /\ fs.entries[2].lines = <<EvalLine(Eval("tool-001", "mcp", None, None))>>
    /\ evals = <<Eval("custom-001", "tools", None, None), Eval("tool-001", "mcp", None, None)>>

\* C13 as claimed: once loading has succeeded nothing raised inside a handler
\* aborts the run: every eval run so far ended in an outcome (Pass, Fail or
\* Skip), the loop is still going or the summary was printed after the last
\* eval, and the process has not died in a handler.
C13_Original ==
    LoadedOk =>
        /\ pc # "panicked"
        /\ \A i \in 1..Len(outcomes) : outcomes[i].tag \in {"Pass", "Fail", "Skip"}
        /\ pc \in {"exit", "done"} => Len(outcomes) = Len(evals)

\* the call returned an error that its scenario does not expect (tool-003
\* expects the error of the division by zero)
CallFailed(c) ==
    CASE c.op = "HookRegistry::fire" -> c.ret.ret = "err"
      [] c.op = "TranscriptStore::save" -> c.ret = "err"
      [] c.op = "TranscriptStore::load" -> ~c.ret.ok
      [] c.op = "create_message" -> ~c.ret.ok
      [] c.op = "create_message_stream" -> c.ret # << >> /\ c.ret[Len(c.ret)] = "err"
      [] c.op = "Tool::execute" -> c.arg # "divide" /\ ~c.ret.ok
      [] OTHER -> FALSE

\* the message of the error a failed call returned
ErrorText(c) ==
    CASE c.op \in {"TranscriptStore::load", "create_message", "Tool::execute"} -> c.ret.error
      [] c.op = "TranscriptStore::save" -> <<"store error">>
      [] c.op = "create_message_stream" -> <<"llm error">>
      [] OTHER -> <<"hook error">>

FailedCalls == {i \in 1..Len(calls) : CallFailed(calls[i])}

\* C14 as claimed: when a collaborator call of the handler returned an error
\* the scenario does not expect, the outcome is Fail and its reason wraps the
\* message of such an error; it is never Pass or Skip.
C14_Original ==
    (cursor = 1 /\ FailedCalls # {}) =>
        /\ result.tag = "Fail"
        /\ \E i \in FailedCalls : Contains(result.reason, ErrorText(calls[i]))

\* C15 as claimed: every Fail outcome of a handler carries a non-empty reason,
\* those whose reason is the Judge's parsed reason included.
C15_Original ==
    (cursor = 1 /\ result.tag = "Fail") => result.reason # << >>

IsEvalLine(l) == l.line \in {"PASS", "FAIL", "SKIP"}

\* the per-eval lines printed so far
EvalLines == SelectSeq(stdout, IsEvalLine)

\* the per-eval lines the first k outcomes call for: with the option on, the
\* FAIL lines alone; with it off, one line per outcome
RECURSIVE LinesFor(_, _)
LinesFor(k, failures_only) ==
    IF k = 0 THEN << >>
    ELSE LinesFor(k - 1, failures_only) \o
         (CASE outcomes[k].tag = "Fail" ->
                  <<[line |-> "FAIL", id |-> evals[k].id, reason |-> outcomes[k].reason]>>
            [] failures_only -> << >>
            [] outcomes[k].tag = "Pass" -> <<[line |-> "PASS", id |-> evals[k].id]>>
            [] OTHER ->
                  <<[line |-> "SKIP", id |-> evals[k].id, reason |-> outcomes[k].reason]>>)

\* C16: failures-only changes only which per-eval lines are printed: with it on
\* the FAIL lines alone are printed, one per Fail outcome; the counters, the
\* summary line and the exit status are determined by the outcomes alone, on
\* or off.
C16_FailuresOnlyFrame ==
    pc \in {"run", "exit", "done"} =>
        /\ EvalLines = LinesFor(Len(outcomes), args.failures_only)
        /\ <<passed, failed, skipped>> = <<Count("Pass"), Count("Fail"), Count("Skip")>>
        /\ pc \in {"exit", "done"} =>
              stdout[Len(stdout)] = SummaryLine(Count("Pass"), Count("Fail"), Count("Skip"))
        /\ pc = "done" => exit_code = <<IF Count("Fail") > 0 THEN 1 ELSE 0>>

\* the option on, a run of a Pass, a Skip and a Fail: one line printed, all
\* three counted
C16_Witness ==
    /\ pc = "done" /\ args.failures_only
    /\ Count("Pass") = 1 /\ Count("Skip") = 1 /\ Count("Fail") = 1
    /\ Len(EvalLines) = 1 /\ EvalLines[1].line = "FAIL"
    /\ stdout[Len(stdout)] = SummaryLine(1, 1, 1)
    /\ exit_code = <<1>>

\* the step prints the summary line
PrintsSummary ==
    /\ stdout' # stdout
    /\ stdout'[Len(stdout')].line = "Results"

\* C17: evals run one after another in load order: when the handler of eval
\* i+1 starts, the evals 1..i have returned an outcome each, have been counted
\* and have had their lines rendered, in that order, and no summary is out;
\* the summary line is rendered only once the last eval has been counted.
C17_StrictlySequential ==
    [][/\ cursor' # cursor =>
             /\ cursor' = cursor + 1
             /\ Len(outcomes) = cursor
             /\ passed + failed + skipped = cursor
             /\ EvalLines = LinesFor(cursor, args.failures_only)
             /\ \A i \in 1..Len(stdout) : stdout[i].line # "Results"
             /\ outcomes' = Append(outcomes, result')
             /\ handler' \in {"none", HandlerFor(evals[cursor + 1].category)}
       /\ PrintsSummary =>
             /\ cursor = Len(evals) /\ cursor' = cursor
             /\ passed + failed + skipped = Len(evals)
             /\ EvalLines = LinesFor(Len(evals), args.failures_only)
      ]_vars

\* three evals of two categories run to the end, every line printed, in load
\* order, the summary last
C17_Witness ==
    /\ pc = "done" /\ ~args.failures_only
    /\ Len(evals) = 3 /\ cursor = 3
    /\ evals[1].category = "agent" /\ evals[2].category = "tools"
    /\ evals[3].category = "agent"
    /\ <<outcomes[1].tag, outcomes[2].tag, outcomes[3].tag>> = <<"Fail", "Pass", "Fail">>
    /\ [i \in 1..3 |-> EvalLines[i].line] = <<"FAIL", "PASS", "FAIL">>
    /\ stdout[Len(stdout)].line = "Results"

\* C18 as claimed: the model named in every judging request is the value of
\* the judge-model option (the default when the option is not given).
C18_Original ==
    \A i \in 1..Len(calls) :
        calls[i].op = "Judge::evaluate" => calls[i].model = args.judge_model

\* the credential the eval's handler needs: the agent handler's, or that of
\* the llm branch the eval is routed to; None where no credential is needed
NeededKey(e) ==
    CASE e.category = "agent" -> "ANTHROPIC_API_KEY"
      [] e.category = "llm" /\ e.provider \in {None, "anthropic"} -> "ANTHROPIC_API_KEY"
      [] e.category = "llm" /\ e.provider = "openai" -> "OPENAI_API_KEY"
      [] e.category = "llm" /\ e.provider = "gemini" -> "GEMINI_API_KEY"
      [] OTHER -> None

\* the calls that build a provider client or send it a request
ProviderCalls ==
    {i \in 1..Len(calls) :
        calls[i].op \in {"from_env", "create_message", "create_message_stream",
                         "Judge::evaluate"}}

\* C19: when the credential of the agent handler or of the llm branch is unset
\* the eval is skipped, no client is built and no request is sent; where the
\* handler is reached (requires_key absent or set) the Skip names that
\* credential.
C19_MissingCredentialSkips ==
    (cursor = 1 /\ NeededKey(LastEval) # None /\ NeededKey(LastEval) \notin env) =>
        /\ result.tag = "Skip"
        /\ ProviderCalls = {}
        /\ ~Gated => /\ result = Skip(<<NeededKey(LastEval), " not set">>)
                     /\ calls = << >>

\* a gemini eval with no requires_key, the other two credentials set
C19_Witness ==
    /\ cursor = 1 /\ LastEval = Eval("llm-005", "llm", "gemini", None)
    /\ env = {"ANTHROPIC_API_KEY", "OPENAI_API_KEY"}
    /\ result = Skip(<<"GEMINI_API_KEY", " not set">>)
    /\ calls = << >>

\* the eval run last, with another provider field
WithProvider(p) == [LastEval EXCEPT !.provider = p]

\* what run_eval made of the eval is among what it makes of e
SameOutcomeAs(e) ==
    \E o \in Oracles(e) :
        LET r == run_eval(e, args.verbose, judge, env, o)
        IN  r.result = result /\ r.handler = handler /\ r.calls = calls

\* the client of the llm branch a provider names
ClientOf(p) ==
    CASE p \in {None, "anthropic"} -> "AnthropicClient"
      [] p = "openai" -> "OpenAIClient"
      [] p = "gemini" -> "GeminiClient"
      [] OTHER -> "none"

\* C20: an llm eval is routed by its provider field, an absent one counting as
\* "anthropic"; the field changes nothing for an eval of another category; a
\* provider other than the three yields Skip("Unknown LLM provider: <p>") with
\* no credential looked for and no call.
C20_ProviderRouting ==
    cursor = 1 =>
        /\ LastEval.category # "llm" => \A p \in Providers : SameOutcomeAs(WithProvider(p))
        /\ (LastEval.category = "llm" /\ LastEval.provider \in {None, "anthropic"}) =>
              SameOutcomeAs(WithProvider(None)) /\ SameOutcomeAs(WithProvider("anthropic"))
        /\ (LastEval.category = "llm" /\ ~Gated) =>
              /\ handler = "run_llm_eval"
              /\ \A i \in 1..Len(calls) : calls[i].client = ClientOf(LastEval.provider)
              /\ LastEval.provider \notin {None, "anthropic", "openai", "gemini"} =>
                    /\ result = Skip(<<"Unknown LLM provider: ", LastEval.provider>>)
                    /\ calls = << >>

\* an unknown provider, no credential set at all
C20_Witness ==
    /\ cursor = 1 /\ LastEval = Eval("llm-001", "llm", "mistral", None)
    /\ env = {}
    /\ result = Skip(<<"Unknown LLM provider: ", "mistral">>)
    /\ calls = << >>

\* the list of the second save of transcript-005
SecondSaved == <<Message("user", <<TextBlock(<<"Second">>)>>)>>

\* the loads the handler made
Loads == {i \in 1..Len(calls) : calls[i].op = "TranscriptStore::load"}

\* C21 as claimed: where transcript-005 ends in an outcome, it is Pass only if
\* the load after the two saves returns exactly the second saved list, and it
\* is Fail for every store whose load result differs from it.
C21_Original ==
    (cursor = 1 /\ ~Gated /\ LastEval.category = "transcript"
     /\ LastEval.id = "transcript-005" /\ result.tag \in {"Pass", "Fail", "Skip"}) =>
        /\ result = Pass =>
              \E i \in Loads : calls[i].ret = Found(TRUE, SecondSaved)
        /\ \A i \in Loads :
              calls[i].ret # Found(TRUE, SecondSaved) => result.tag = "Fail"

\* the ids with a scenario of their own in the table of the eval's handler
\* (for llm: in the table of the provider's branch)
CommittedIds(e) ==
    CASE e.category = "tools" ->
            {"tool-001", "tool-002", "tool-003", "tool-004", "tool-005"}
      [] e.category = "hooks" -> {"hook-001", "hook-002", "hook-003", "hook-004"}
      [] e.category = "agent" -> {"agent-001", "agent-003"}
      [] e.category = "transcript" ->
            {"transcript-001", "transcript-002", "transcript-003", "transcript-004",
             "transcript-005"}
      [] e.category = "llm" ->
            CASE e.provider \in {None, "anthropic"} -> {"llm-001", "llm-002"}
              [] e.provider = "openai" -> {"llm-003"}
              [] e.provider = "gemini" -> {"llm-005"}
              [] OTHER -> {}
      [] OTHER -> {}

\* an eval of a handler with a scenario table, past the gate, whose id has no
\* scenario of its own
Uncommitted ==
    /\ cursor = 1 /\ ~Gated
    /\ LastEval.category \in {"tools", "hooks", "agent", "transcript", "llm"}
    /\ LastEval.id \notin CommittedIds(LastEval)

\* C22 as claimed: in each of the five handlers an id with no scenario of its
\* own yields Skip, and no provider or Judge call is issued.
C22_Original ==
    Uncommitted => result.tag = "Skip" /\ ProviderCalls = {}

\* what run_eval can make of the record when it is run on its own
Alone(e) ==
    {run_eval(e, args.verbose, judge, env, o) : o \in Oracles(e)}

\* the call that builds the fixture of the category's handler
FixtureNew(category) ==
    CASE category = "tools" -> "Registry::new"
      [] category = "hooks" -> "HookRegistry::new"
      [] OTHER -> "MemoryTranscriptStore::new"

=============================================================================
